---- MODULE Spec2Model ----
(***************************************************************************)
(* State-machine model of the WHOOP OAuth relay in src/main.py: the token  *)
(* registry (token_store), the state registry (state_store), the OAuth     *)
(* callbacks and the token refresh policy (refresh_token_if_needed).       *)
(*                                                                         *)
(* The handlers are asyncio coroutines: a handler runs without             *)
(* interruption from one `await` on the network to the next, and any other *)
(* handler may run while it is suspended.  Each action below is one such   *)
(* uninterrupted piece of a handler.  What a piece does is a definition of  *)
(* its own (X_call for the piece from the invocation to the first request, *)
(* X_response for the piece that handles the response): its value is the   *)
(* effect of the piece, that is what it returns, the two stores as it      *)
(* leaves them, and the handler it suspends, if any.  A return statement   *)
(* inside `async with httpx.AsyncClient()` awaits the close of the client  *)
(* before the caller gets the value; refresh_token_if_needed, whose caller *)
(* goes on to use the value, is followed through that last await too.      *)
(*                                                                         *)
(* Three specifications: Spec is the service from start-up (authorization, *)
(* callbacks, refresh, status, disconnect); RefreshSpec is the refresh     *)
(* policy alone, from records that already need a refresh; RelaySpec is    *)
(* one data request at a time, from any record a user can have.  The       *)
(* history variables (generated, passed, replaced, refresh_failed,         *)
(* exchanged, disconnected, refused) are kept by the actions of Spec and   *)
(* RefreshSpec; RelaySpec leaves them alone.                               *)
(***************************************************************************)
EXTENDS Integers, Sequences, FiniteSets, Bags, TLC

\* ---------------------------------------------------------------- bounds
Users == {"u1", "u2"}

\* how many state tokens generate_state is asked for in one behaviour
MaxStates == 2

\* how many handler invocations that go to the network in one behaviour
MaxCalls == 2

\* how many times the clock is observed to advance in one behaviour
MaxTicks == 1

\* the values generate_state draws from
States == 1..MaxStates

\* a state value no get_auth_url ever handed out (forged or mistyped)
UnknownState == 0

\* clock advances, in seconds
TickSteps == {3300}

\* expires_in values (seconds) the provider puts in a token response
ExpiresInValues == {3600}

\* user_id values of the provider's profile response
ProfileUserIds == {999}

\* ------------------------------------------------------- python values
\* An Optional value is a sequence of length <= 1: None is <<>>.
None == <<>>

Some(v) == <<v>>

\* Python truthiness of an Optional value: `if x` / `if not x`
Truthy(x) == x # None

\* dict.get(key, default) on an Optional field
GetOr(x, default) == IF x = None THEN default ELSE x[1]

\* timedelta(minutes=5) of the expiry check, in seconds
RefreshBuffer == 300

\* data.get("expires_in", 3600)
DefaultExpiresIn == 3600

\* datetime.isoformat() of a naive UTC datetime: the text
\* "...THH:MM:SS", kept as its <<hours, minutes, seconds>> fields
isoformat(t) == <<t \div 3600, (t % 3600) \div 60, t % 60>>

\* datetime.fromisoformat(): back to seconds
fromisoformat(s) == s[1] * 3600 + s[2] * 60 + s[3]

\* ---------------------------------------------------------------- state
VARIABLES
    WHOOP_CLIENT_ID,  \* configuration read at start-up ("" when unset)
    token_store,      \* user_id -> credential record   (a dict: partial)
    state_store,      \* state   -> user_id             (a dict: partial)
    now,              \* datetime.utcnow(), in seconds
    ticks,            \* clock advances so far
    calls,            \* the suspended handlers (awaiting the network), a bag
    ncalls,           \* handlers suspended so far
    provider,         \* the WHOOP OAuth server: tokens issued, valid refresh tokens
    generated,        \* state -> user_id it was issued for (every state ever generated)
    passed,           \* state -> how many callbacks passed the state check with it
    replaced,         \* refresh tokens that a completed refresh has replaced by a new one
    refresh_failed,   \* user_id -> a refresh got a non-200 answer since the last successful callback
    exchanged,        \* the states whose callback got a 200 answer to its token exchange
    relay,            \* the data request that RelaySpec follows from call to answer
    disconnected,     \* user_id -> disconnect_whoop succeeded since the last successful callback
    refused           \* refresh tokens whose refresh request got a non-200 answer

vars == <<WHOOP_CLIENT_ID, token_store, state_store, now, ticks, calls, ncalls,
          provider, generated, passed, replaced, refresh_failed, exchanged, relay,
          disconnected, refused>>

\* ------------------------------------------------------------- helpers
\* dict with one key set / removed
DictSet(d, k, v) == [x \in DOMAIN d \cup {k} |-> IF x = k THEN v ELSE d[x]]

DictDel(d, k) == [x \in DOMAIN d \ {k} |-> d[x]]

EmptyDict == [x \in {} |-> 0]

\* an HTTP response of the provider, as the handlers read it
Response(status, at, rt, exp, uid) ==
    [status_code |-> status, access_token |-> at, refresh_token |-> rt,
     expires_in |-> exp, user_id |-> uid]

NoResponse == Response(0, 0, None, None, None)

\* the credential record format of token_store
TokenData(at, rt, exp, wid) ==
    [access_token |-> at, refresh_token |-> rt, expires_at |-> exp, whoop_user_id |-> wid]

NoTokenData == TokenData(0, None, isoformat(0), None)

\* a suspended handler: its name, its local variables, and (for a refresh)
\* the response that is on its way to it
Call(op, user_id, state, refresh_token, token_data, response) ==
    [op |-> op, user_id |-> user_id, state |-> state,
     refresh_token |-> refresh_token, token_data |-> token_data,
     response |-> response]

\* the effect of one piece of a handler: `done` is whether the piece
\* reached a return (or a raise), and then with which status, value and
\* error; the two stores as the piece leaves them; the handler it suspends
\* (or None)
Effect(done, status, value, error, ts, ss, call) ==
    [done |-> done, status |-> status, value |-> value, error |-> error,
     token_store |-> ts, state_store |-> ss, call |-> call]

\* --------------------------------------------------- data relay: values
\* the resource types of get_whoop_data, in the order it fetches them
Resources == <<"recovery", "sleep", "workout", "cycle", "profile", "body_measurement">>

ResourceSet == {Resources[i] : i \in DOMAIN Resources}

\* the field of WhoopDataResponse that holds a resource type
Field(resource) ==
    CASE resource = "workout" -> "workouts"
      [] resource = "cycle" -> "cycles"
      [] OTHER -> resource

\* WhoopDataResponse(): every field at its default ([] or None, both <<>>)
WhoopDataResponse == [f \in {Field(x) : x \in ResourceSet} |-> None]

\* the handlers that relay one resource type, with the resource each fetches
ResourceEndpoints ==
    [op \in {"get_recovery_data", "get_sleep_data", "get_workout_data",
             "get_cycle_data", "get_user_profile", "get_body_measurement"} |->
        CASE op = "get_recovery_data" -> "recovery"
          [] op = "get_sleep_data" -> "sleep"
          [] op = "get_workout_data" -> "workout"
          [] op = "get_cycle_data" -> "cycle"
          [] op = "get_user_profile" -> "profile"
          [] OTHER -> "body_measurement"]

\* a data request: the handler, its arguments, where it is (idle, refresh:
\* suspended in refresh_token_if_needed; fetch: suspended on an upstream
\* GET; done), whether refresh_token_if_needed returned and what, the
\* suspended refresh, the upstream GETs sent so far, the resources whose
\* GET failed, the response body and the HTTP status
Relay(op, user_id, data_types) ==
    [op |-> op, user_id |-> user_id, data_types |-> data_types, pc |-> "idle",
     returned |-> FALSE, access_token |-> None, call |-> None,
     requests |-> <<>>, failed |-> {}, result |-> WhoopDataResponse, status |-> 0]

NoRelay == Relay("", "", {})

\* ----------------------------------------------------------------- init
Init ==
    /\ WHOOP_CLIENT_ID \in {"", "client-id"}
    /\ token_store = EmptyDict
    /\ state_store = EmptyDict
    /\ now = 0
    /\ ticks = 0
    /\ calls = EmptyBag
    /\ ncalls = 0
    /\ provider = [next |-> 1, valid |-> {}]
    /\ generated = EmptyDict
    /\ passed = [s \in States |-> 0]
    /\ replaced = {}
    /\ refresh_failed = [u \in Users |-> FALSE]
    /\ exchanged = {}
    /\ relay = NoRelay
    /\ disconnected = [u \in Users |-> FALSE]
    /\ refused = {}

\* ---------------------------------------------------------------- clock
Tick ==
    /\ ticks < MaxTicks
    /\ \E d \in TickSteps : now' = now + d
    /\ ticks' = ticks + 1
    /\ UNCHANGED <<refused, disconnected, relay, exchanged, WHOOP_CLIENT_ID, token_store, state_store, calls, ncalls,
                   provider, generated, passed, replaced, refresh_failed>>

\* ------------------------------------------------- the WHOOP provider
\* Each operator is the set of answers the provider can give to a request;
\* an answer to a token request is <<response, provider state afterwards>>.

\* a token response with status 200: a new access token k, and a new refresh
\* token k or none
TokenResponses(k, exps) ==
    {Response(200, k, rt, exp, None) : rt \in {None, Some(k)}, exp \in exps}

\* POST /oauth/oauth2/token, grant_type=authorization_code: the code is
\* rejected, or a new access token is issued
whoop_token_exchange ==
    {<<Response(400, 0, None, None, None), provider>>}
    \cup {<<r, [next |-> provider.next + 1,
              valid |-> IF r.refresh_token = None THEN provider.valid
                        ELSE provider.valid \cup {provider.next}]>> :
            r \in TokenResponses(provider.next,
                                 {None} \cup {Some(e) : e \in ExpiresInValues})}

\* POST /oauth/oauth2/token, grant_type=refresh_token.  Refresh Token
\* Rotation (lines 368-370): a refresh token that is no longer valid is
\* rejected; a valid one gets a new access token with a new refresh token
\* (the old one is invalid from then on) or with none (lines 417-419; the old
\* one stays valid); any request can fail.
whoop_token_refresh(refresh_token) ==
    {<<Response(400, 0, None, None, None), provider>>}
    \cup IF refresh_token \in provider.valid
         THEN {<<r, [next |-> provider.next + 1,
                     valid |-> IF r.refresh_token = None THEN provider.valid
                               ELSE (provider.valid \ {refresh_token}) \cup {provider.next}]>> :
                    r \in TokenResponses(provider.next,
                                         {Some(e) : e \in ExpiresInValues})}
         ELSE {}

\* GET /developer/v2/user/profile/basic
whoop_profile ==
    {Response(500, 0, None, None, None)}
    \cup {Response(200, 0, None, None, Some(i)) : i \in ProfileUserIds}

\* ------------------------------------------------------- generate_state
\* a generator that hands out one fixed value
generate_state_Fixed == {s \in States : s = 1}

\* secrets.token_urlsafe(32): 256 random bits, so a value that was never
\* drawn before.  The values are opaque: the k-th one drawn is called k.
generate_state == {s \in States : s = Cardinality(DOMAIN generated) + 1}

\* ---------------------------------------------------------- get_auth_url
\* variant that stores the state before it checks the configuration
get_auth_url_call_StoreFirst(user_id, state) ==
    IF WHOOP_CLIENT_ID = ""
    THEN Effect(TRUE, 500, None, "WHOOP_CLIENT_ID not configured",
                token_store, DictSet(state_store, state, user_id), None)
    ELSE Effect(TRUE, 200, Some(state), "",
                token_store, DictSet(state_store, state, user_id), None)

\* single-flight variant: issuing a state drops the user's earlier ones
get_auth_url_call_SingleFlight(user_id, state) ==
    IF WHOOP_CLIENT_ID = ""
    THEN Effect(TRUE, 500, None, "WHOOP_CLIENT_ID not configured",
                token_store, state_store, None)
    ELSE Effect(TRUE, 200, Some(state), "", token_store,
                [x \in {y \in DOMAIN state_store : state_store[y] # user_id} \cup {state}
                     |-> IF x = state THEN user_id ELSE state_store[x]],
                None)

get_auth_url_call(user_id, state) ==
    IF WHOOP_CLIENT_ID = ""
    THEN Effect(TRUE, 500, None, "WHOOP_CLIENT_ID not configured",
                token_store, state_store, None)
    ELSE Effect(TRUE, 200, Some(state), "",
                token_store, DictSet(state_store, state, user_id), None)

get_auth_url(user_id) ==
    /\ \E state \in generate_state :
        LET e == get_auth_url_call(user_id, state) IN
        /\ state_store' = e.state_store
        /\ token_store' = e.token_store
        /\ generated' = IF e.status = 200 THEN DictSet(generated, state, user_id)
                        ELSE generated
    /\ UNCHANGED <<refused, disconnected, relay, exchanged, WHOOP_CLIENT_ID, now, ticks, calls, ncalls, provider, passed,
                   replaced, refresh_failed>>

\* ------------------------------------------------ callbacks: shared parts
\* variant without the state check
StateKnown_Unchecked(state) == TRUE

\* `state not in state_store`
StateKnown(state) == state \in DOMAIN state_store

\* variant that reads the entry without removing it (state_store[state])
PopState_Keep(state) == state_store

\* state_store.pop(state): the store without the entry
PopState(state) == DictDel(state_store, state)

\* variant that reads the profile body whatever the status
WhoopUserId_AnyStatus(profile_response) ==
    Some(IF profile_response.user_id = None THEN ""
         ELSE ToString(profile_response.user_id[1]))

\* str(profile.get("user_id", "")) of a 200 profile response, None otherwise
WhoopUserId(profile_response) ==
    IF profile_response.status_code = 200
    THEN Some(IF profile_response.user_id = None THEN ""
              ELSE ToString(profile_response.user_id[1]))
    ELSE None

\* (datetime.utcnow() + timedelta(seconds=expires_in)).isoformat()
ExpiresAt(data, t) == isoformat(t + GetOr(data.expires_in, DefaultExpiresIn))

\* the record a callback stores (lines 641-646, 710-715)
CallbackRecord(data, whoop_user_id, t) ==
    TokenData(data.access_token, data.refresh_token, ExpiresAt(data, t), whoop_user_id)

\* a handler suspends: it joins the suspended handlers
Suspend(e) ==
    IF e.call = None
    THEN UNCHANGED <<calls, ncalls>>
    ELSE /\ ncalls < MaxCalls
         /\ ncalls' = ncalls + 1
         /\ calls' = calls (+) SetToBag({e.call[1]})

\* a suspended handler resumes
Resume(c) == calls' = calls (-) SetToBag({c})

\* ------------------------------------------- oauth_callback_redirect (GET)
\* lines 594-612: the state check, the pop, and the exchange request
oauth_callback_redirect_call(state) ==
    IF ~StateKnown(state)
    THEN Effect(TRUE, 307, None, "invalid_state", token_store, state_store, None)
    ELSE IF state \notin DOMAIN state_store
    THEN \* state_store.pop(state) raises KeyError
         Effect(TRUE, 500, None, "KeyError", token_store, state_store, None)
    ELSE Effect(FALSE, 0, None, "", token_store, PopState(state),
                Some(Call("oauth_callback_redirect", state_store[state], state,
                          None, NoTokenData, NoResponse)))

\* variant that does not look at the status of the exchange response
oauth_callback_redirect_response_Unchecked(c, response, profile_response) ==
    LET whoop_user_id == WhoopUserId(profile_response)
    IN Effect(TRUE, 307, Some(GetOr(whoop_user_id, "")), "",
              DictSet(token_store, c.user_id,
                      CallbackRecord(response, whoop_user_id, now)),
              state_store, None)

\* variant that starts the token store anew with the record it stores
oauth_callback_redirect_response_Reset(c, response, profile_response) ==
    IF response.status_code # 200
    THEN Effect(TRUE, 307, None, "token_exchange_failed", token_store, state_store, None)
    ELSE LET whoop_user_id == WhoopUserId(profile_response)
         IN Effect(TRUE, 307, Some(GetOr(whoop_user_id, "")), "",
                   DictSet(EmptyDict, c.user_id,
                           CallbackRecord(response, whoop_user_id, now)),
                   state_store, None)

\* lines 614-656: the exchange response, the profile request and its
\* response, the store, the redirect.  Nothing between the two responses
\* reads or writes the stores, so the piece is taken when the profile
\* response arrives.  The close of the client that follows the return
\* statement delivers an answer that is already built and touches no
\* store; it is part of this piece.
oauth_callback_redirect_response(c, response, profile_response) ==
    IF response.status_code # 200
    THEN Effect(TRUE, 307, None, "token_exchange_failed", token_store, state_store, None)
    ELSE LET whoop_user_id == WhoopUserId(profile_response)
         IN Effect(TRUE, 307, Some(GetOr(whoop_user_id, "")), "",
                   DictSet(token_store, c.user_id,
                           CallbackRecord(response, whoop_user_id, now)),
                   state_store, None)

oauth_callback_redirect(state) ==
    LET e == oauth_callback_redirect_call(state) IN
    /\ state_store' = e.state_store
    /\ token_store' = e.token_store
    /\ Suspend(e)
    /\ passed' = IF e.call = None THEN passed ELSE [passed EXCEPT ![state] = @ + 1]
    /\ UNCHANGED <<refused, disconnected, relay, exchanged, WHOOP_CLIENT_ID, now, ticks, provider, generated, replaced,
                   refresh_failed>>

oauth_callback_redirect_resume(c) ==
    /\ c.op = "oauth_callback_redirect"
    /\ \E a \in whoop_token_exchange, profile_response \in whoop_profile :
        LET e == oauth_callback_redirect_response(c, a[1], profile_response) IN
        /\ provider' = a[2]
        /\ token_store' = e.token_store
        /\ state_store' = e.state_store
        /\ refresh_failed' = IF e.error = ""
                             THEN [refresh_failed EXCEPT ![c.user_id] = FALSE]
                             ELSE refresh_failed
        /\ exchanged' = IF e.error = "" THEN exchanged \cup {c.state} ELSE exchanged
        /\ disconnected' = IF e.error = ""
                           THEN [disconnected EXCEPT ![c.user_id] = FALSE]
                           ELSE disconnected
    /\ Resume(c)
    /\ UNCHANGED <<refused, relay, WHOOP_CLIENT_ID, now, ticks, ncalls, generated, passed, replaced>>

\* --------------------------------------------- oauth_callback_manual (POST)
\* variant that reads the pending entry and leaves it in place
oauth_callback_manual_call_KeepState(state) ==
    IF ~StateKnown(state)
    THEN Effect(TRUE, 200, None, "invalid_state", token_store, state_store, None)
    ELSE Effect(FALSE, 0, None, "", token_store, state_store,
                Some(Call("oauth_callback_manual", state_store[state], state,
                          None, NoTokenData, NoResponse)))

\* lines 667-682
oauth_callback_manual_call(state) ==
    IF ~StateKnown(state)
    THEN Effect(TRUE, 200, None, "invalid_state", token_store, state_store, None)
    ELSE IF state \notin DOMAIN state_store
    THEN \* state_store.pop(state) raises KeyError
         Effect(TRUE, 500, None, "KeyError", token_store, state_store, None)
    ELSE Effect(FALSE, 0, None, "", token_store, PopState(state),
                Some(Call("oauth_callback_manual", state_store[state], state,
                          None, NoTokenData, NoResponse)))

\* variant that merges: keeps the old record's refresh token when the new
\* exchange brings none
oauth_callback_manual_response_Merge(c, response, profile_response) ==
    IF response.status_code # 200
    THEN Effect(TRUE, 200, None, "token_exchange_failed", token_store, state_store, None)
    ELSE LET whoop_user_id == WhoopUserId(profile_response)
             record == CallbackRecord(response, whoop_user_id, now)
         IN Effect(TRUE, 200, whoop_user_id, "",
                   DictSet(token_store, c.user_id,
                           IF c.user_id \in DOMAIN token_store /\ record.refresh_token = None
                           THEN [record EXCEPT !.refresh_token =
                                                   token_store[c.user_id].refresh_token]
                           ELSE record),
                   state_store, None)

\* variant that puts the pending entry back when the exchange fails, so
\* that the same state can be tried again
oauth_callback_manual_response_Restore(c, response, profile_response) ==
    IF response.status_code # 200
    THEN Effect(TRUE, 200, None, "token_exchange_failed", token_store,
                DictSet(state_store, c.state, c.user_id), None)
    ELSE LET whoop_user_id == WhoopUserId(profile_response)
         IN Effect(TRUE, 200, whoop_user_id, "",
                   DictSet(token_store, c.user_id,
                           CallbackRecord(response, whoop_user_id, now)),
                   state_store, None)

\* lines 684-723
oauth_callback_manual_response(c, response, profile_response) ==
    IF response.status_code # 200
    THEN Effect(TRUE, 200, None, "token_exchange_failed", token_store, state_store, None)
    ELSE LET whoop_user_id == WhoopUserId(profile_response)
         IN Effect(TRUE, 200, whoop_user_id, "",
                   DictSet(token_store, c.user_id,
                           CallbackRecord(response, whoop_user_id, now)),
                   state_store, None)

oauth_callback_manual(state) ==
    LET e == oauth_callback_manual_call(state) IN
    /\ state_store' = e.state_store
    /\ token_store' = e.token_store
    /\ Suspend(e)
    /\ passed' = IF e.call = None THEN passed ELSE [passed EXCEPT ![state] = @ + 1]
    /\ UNCHANGED <<refused, disconnected, relay, exchanged, WHOOP_CLIENT_ID, now, ticks, provider, generated, replaced,
                   refresh_failed>>

oauth_callback_manual_resume(c) ==
    /\ c.op = "oauth_callback_manual"
    /\ \E a \in whoop_token_exchange, profile_response \in whoop_profile :
        LET e == oauth_callback_manual_response(c, a[1], profile_response) IN
        /\ provider' = a[2]
        /\ token_store' = e.token_store
        /\ state_store' = e.state_store
        /\ refresh_failed' = IF e.error = ""
                             THEN [refresh_failed EXCEPT ![c.user_id] = FALSE]
                             ELSE refresh_failed
        /\ exchanged' = IF e.error = "" THEN exchanged \cup {c.state} ELSE exchanged
        /\ disconnected' = IF e.error = ""
                           THEN [disconnected EXCEPT ![c.user_id] = FALSE]
                           ELSE disconnected
    /\ Resume(c)
    /\ UNCHANGED <<refused, relay, WHOOP_CLIENT_ID, now, ticks, ncalls, generated, passed, replaced>>

\* ------------------------------------------------ refresh_token_if_needed
\* variant with a buffer of one hour instead of five minutes
TokenValid_HourBuffer(token_data, t) ==
    /\ Truthy(token_data.expires_at)
    /\ fromisoformat(token_data.expires_at) > t + 12 * RefreshBuffer

\* variant that still accepts a token expiring exactly at the threshold
TokenValid_Inclusive(token_data, t) ==
    /\ Truthy(token_data.expires_at)
    /\ fromisoformat(token_data.expires_at) >= t + RefreshBuffer

\* line 380: the stored token is still good for more than the buffer
TokenValid(token_data, t) ==
    /\ Truthy(token_data.expires_at)
    /\ fromisoformat(token_data.expires_at) > t + RefreshBuffer

\* variant without the fallback to the refresh token that was sent
NewRefreshToken_NoFallback(data, refresh_token) == data.refresh_token

\* lines 414-419: the refresh token of the response, or else the one sent
NewRefreshToken(data, refresh_token) ==
    IF Truthy(data.refresh_token) THEN data.refresh_token ELSE refresh_token

\* variant that builds the record anew, without the remote user id
RefreshedRecord_NoUserId(data, refresh_token, token_data, t) ==
    TokenData(data.access_token, NewRefreshToken(data, refresh_token),
              ExpiresAt(data, t), None)

\* lines 421-426: the record a successful refresh stores
RefreshedRecord(data, refresh_token, token_data, t) ==
    TokenData(data.access_token, NewRefreshToken(data, refresh_token),
              ExpiresAt(data, t), token_data.whoop_user_id)

\* variant that returns None for a record without refresh token but keeps
\* the record
refresh_token_if_needed_call_KeepRecord(user_id) ==
    IF user_id \notin DOMAIN token_store
    THEN Effect(TRUE, 200, None, "", token_store, state_store, None)
    ELSE LET token_data == token_store[user_id]
             refresh_token == token_data.refresh_token
         IN IF TokenValid(token_data, now)
            THEN Effect(TRUE, 200, Some(token_data.access_token), "",
                        token_store, state_store, None)
            ELSE IF ~Truthy(refresh_token)
            THEN Effect(TRUE, 200, None, "", token_store, state_store, None)
            ELSE Effect(FALSE, 0, None, "", token_store, state_store,
                        Some(Call("refresh_token_if_needed", user_id, UnknownState,
                                  refresh_token, token_data, NoResponse)))

\* lines 372-402: up to the refresh request
refresh_token_if_needed_call(user_id) ==
    IF user_id \notin DOMAIN token_store
    THEN Effect(TRUE, 200, None, "", token_store, state_store, None)
    ELSE LET token_data == token_store[user_id]
             refresh_token == token_data.refresh_token
         IN IF TokenValid(token_data, now)
            THEN Effect(TRUE, 200, Some(token_data.access_token), "",
                        token_store, state_store, None)
            ELSE IF ~Truthy(refresh_token)
            THEN Effect(TRUE, 200, None, "", DictDel(token_store, user_id),
                        state_store, None)
            ELSE Effect(FALSE, 0, None, "", token_store, state_store,
                        Some(Call("refresh_token_if_needed", user_id, UnknownState,
                                  refresh_token, token_data, NoResponse)))

\* lines 404-430: the refresh response; status 500 is the KeyError that
\* `del token_store[user_id]` raises when the record is gone
refresh_token_if_needed_response(c) ==
    LET user_id == c.user_id
        data == c.response
    IN IF data.status_code # 200
       THEN IF user_id \in DOMAIN token_store
            THEN Effect(TRUE, 200, None, "", DictDel(token_store, user_id),
                        state_store, None)
            ELSE Effect(TRUE, 500, None, "KeyError", token_store, state_store, None)
       ELSE Effect(TRUE, 200, Some(data.access_token), "",
                   DictSet(token_store, user_id,
                           RefreshedRecord(data, c.refresh_token, c.token_data, now)),
                   state_store, None)

\* lines 393-430: the request and everything after it are inside `async
\* with httpx.AsyncClient()`, so the return statements of the response
\* piece (lines 408, 430) leave that block: the client's __aexit__ is
\* awaited, and the caller gets the value when the close has completed.
\* The handler is then suspended once more, with the outcome of its
\* response piece e; the close may complete at once or after other
\* handlers ran.
Closing(c, e) ==
    [op |-> "refresh_token_if_needed.__aexit__", user_id |-> c.user_id,
     state |-> c.state, refresh_token |-> c.refresh_token,
     token_data |-> c.token_data, response |-> c.response,
     status |-> e.status, value |-> e.value]

refresh_token_if_needed(user_id) ==
    LET e == refresh_token_if_needed_call(user_id) IN
    /\ token_store' = e.token_store
    /\ state_store' = e.state_store
    /\ IF e.call = None
       THEN UNCHANGED <<calls, ncalls, provider>>
       ELSE \E a \in whoop_token_refresh(e.call[1].refresh_token[1]) :
                /\ Suspend([e EXCEPT !.call = Some([e.call[1] EXCEPT !.response = a[1]])])
                /\ provider' = a[2]
    /\ UNCHANGED <<refused, disconnected, relay, exchanged, WHOOP_CLIENT_ID, now, ticks, generated, passed, replaced,
                   refresh_failed>>

refresh_token_if_needed_resume(c) ==
    /\ c.op = "refresh_token_if_needed"
    /\ LET e == refresh_token_if_needed_response(c) IN
        /\ token_store' = e.token_store
        /\ state_store' = e.state_store
    /\ refresh_failed' = IF c.response.status_code # 200
                         THEN [refresh_failed EXCEPT ![c.user_id] = TRUE]
                         ELSE refresh_failed
    /\ replaced' = IF c.response.status_code = 200 /\ Truthy(c.response.refresh_token)
                   THEN replaced \cup {c.refresh_token[1]}
                   ELSE replaced
    /\ refused' = IF c.response.status_code # 200
                  THEN refused \cup {c.refresh_token[1]}
                  ELSE refused
    /\ calls' = (calls (-) SetToBag({c}))
                    (+) SetToBag({Closing(c, refresh_token_if_needed_response(c))})
    /\ UNCHANGED <<disconnected, relay, exchanged, WHOOP_CLIENT_ID, now, ticks, ncalls, provider, generated, passed>>

\* the client is closed and the caller gets what the return statement gave
refresh_token_if_needed_return(c) ==
    /\ c.op = "refresh_token_if_needed.__aexit__"
    /\ Resume(c)
    /\ UNCHANGED <<refused, disconnected, relay, exchanged, WHOOP_CLIENT_ID, token_store,
                   state_store, now, ticks, ncalls, provider, generated, passed, replaced,
                   refresh_failed>>

\* -------------------------------------------------- get_connection_status
\* variant that reads the record with token_store.setdefault(user_id, {...})
get_connection_status_call_SetDefault(user_id) ==
    Effect(TRUE, 200,
           IF user_id \in DOMAIN token_store THEN token_store[user_id].whoop_user_id
           ELSE None,
           "",
           IF user_id \in DOMAIN token_store THEN token_store
           ELSE DictSet(token_store, user_id, NoTokenData),
           state_store, None)

get_connection_status_call(user_id) ==
    IF user_id \notin DOMAIN token_store
    THEN Effect(TRUE, 200, None, "not connected", token_store, state_store, None)
    ELSE Effect(TRUE, 200, token_store[user_id].whoop_user_id, "",
                token_store, state_store, None)

get_connection_status(user_id) ==
    LET e == get_connection_status_call(user_id) IN
    /\ token_store' = e.token_store
    /\ state_store' = e.state_store
    /\ UNCHANGED <<refused, disconnected, relay, exchanged, WHOOP_CLIENT_ID, now, ticks, calls, ncalls, provider, generated,
                   passed, replaced, refresh_failed>>

\* ------------------------------------------------------- disconnect_whoop
disconnect_whoop_call(user_id) ==
    IF user_id \notin DOMAIN token_store
    THEN Effect(TRUE, 404, None, "User not connected", token_store, state_store, None)
    ELSE Effect(TRUE, 200, None, "", DictDel(token_store, user_id), state_store, None)

disconnect_whoop(user_id) ==
    LET e == disconnect_whoop_call(user_id) IN
    /\ token_store' = e.token_store
    /\ state_store' = e.state_store
    /\ disconnected' = IF e.status = 200
                       THEN [disconnected EXCEPT ![user_id] = TRUE]
                       ELSE disconnected
    /\ UNCHANGED <<refused, relay, exchanged, WHOOP_CLIENT_ID, now, ticks, calls, ncalls, provider, generated,
                   passed, replaced, refresh_failed>>

Next ==
    \/ Tick
    \/ \E u \in Users : get_auth_url(u)
    \/ \E s \in States \cup {UnknownState} : oauth_callback_redirect(s)
    \/ \E c \in BagToSet(calls) : oauth_callback_redirect_resume(c)
    \/ \E s \in States \cup {UnknownState} : oauth_callback_manual(s)
    \/ \E c \in BagToSet(calls) : oauth_callback_manual_resume(c)
    \/ \E u \in Users : refresh_token_if_needed(u)
    \/ \E c \in BagToSet(calls) : refresh_token_if_needed_resume(c)
    \/ \E c \in BagToSet(calls) : refresh_token_if_needed_return(c)
    \/ \E u \in Users : get_connection_status(u)
    \/ \E u \in Users : disconnect_whoop(u)

Spec == Init /\ [][Next]_vars

\* ======================================================= refresh, alone
\* RefreshSpec follows the refreshes of records that already need one: it
\* starts where Spec is after a callback stored a record with a refresh
\* token for each user and the clock advanced to the refresh threshold,
\* and goes on with refresh_token_if_needed and the clock only.
RefreshInit ==
    /\ WHOOP_CLIENT_ID = "client-id"
    /\ now \in TickSteps
    /\ token_store = [u \in Users |->
                         LET k == IF u = "u1" THEN 1 ELSE 2
                         IN TokenData(k, Some(k), isoformat(DefaultExpiresIn),
                                      Some("999"))]
    /\ state_store = EmptyDict
    /\ ticks = 0
    /\ calls = EmptyBag
    /\ ncalls = 0
    /\ provider = [next |-> 3, valid |-> {1, 2}]
    /\ generated = [s \in {1, 2} |-> IF s = 1 THEN "u1" ELSE "u2"]
    /\ passed = [s \in States |-> IF s \in {1, 2} THEN 1 ELSE 0]
    /\ replaced = {}
    /\ refresh_failed = [u \in Users |-> FALSE]
    /\ exchanged = {1, 2}
    /\ relay = NoRelay
    /\ disconnected = [u \in Users |-> FALSE]
    /\ refused = {}

RefreshNext ==
    \/ Tick
    \/ \E u \in Users : refresh_token_if_needed(u)
    \/ \E c \in BagToSet(calls) : refresh_token_if_needed_resume(c)
    \/ \E c \in BagToSet(calls) : refresh_token_if_needed_return(c)

RefreshSpec == RefreshInit /\ [][RefreshNext]_vars

\* ============================================================ data relay
\* The data endpoints (lines 768-1181) call refresh_token_if_needed and then
\* relay GETs to the WHOOP API; they touch the stores only through
\* refresh_token_if_needed.  RelaySpec follows one data request at a time
\* from its call to its answer, from any record a user can have.  The date
\* range parameters (lines 820-836) only shape the query string and are
\* left out.  With one request at a time nothing runs while a client is
\* being closed, so the close of refresh_token_if_needed's client is part of
\* the piece that handles the refresh response.

\* the clock values and the records RelaySpec starts from: no record; a
\* record that expired, that expires 1 s inside, exactly at, and 1 s after
\* the refresh threshold, and a fresh one; with and without refresh token
RelayClock == {3300}

RelayExpiries(t) == {t - 1, t + 5 * 60 - 1, t + 5 * 60, t + 5 * 60 + 1, t + 3600}

RelayStores(t) ==
    {EmptyDict}
    \cup {[u \in {"u1"} |-> TokenData(1, rt, isoformat(x), Some("999"))] :
             rt \in {None, Some(1)}, x \in RelayExpiries(t)}

RelayInit ==
    /\ WHOOP_CLIENT_ID = "client-id"
    /\ now \in RelayClock
    /\ token_store \in RelayStores(now)
    /\ state_store = EmptyDict
    /\ ticks = 0
    /\ calls = EmptyBag
    /\ ncalls = 0
    /\ provider = [next |-> 2, valid |-> {1}]
    /\ generated = EmptyDict
    /\ passed = [s \in States |-> 0]
    /\ replaced = {}
    /\ refresh_failed = [u \in Users |-> FALSE]
    /\ exchanged = {}
    /\ relay = NoRelay
    /\ disconnected = [u \in Users |-> FALSE]
    /\ refused = {}

\* an upstream GET of a resource: a 200 response with a body, a non-200
\* response, or an exception raised by the client (status_code 0)
whoop_resource(resource) ==
    {[status_code |-> 200, body |-> Some(resource)],
     [status_code |-> 500, body |-> None],
     [status_code |-> 0, body |-> None]}

\* `if not access_token` (lines 816, 958, ...)
Unauthenticated(access_token) == ~Truthy(access_token)

\* position of a resource type in the order get_whoop_data fetches them
Index(resource) == CHOOSE i \in DOMAIN Resources : Resources[i] = resource

\* the resource types a request still has to fetch: for get_whoop_data the
\* requested ones after the last one fetched, for the others their one
\* resource if not yet fetched
Pending(r) ==
    IF r.op = "get_whoop_data"
    THEN {x \in ResourceSet \cap r.data_types :
              \A k \in DOMAIN r.requests : Index(x) > Index(r.requests[k])}
    ELSE IF r.requests = <<>> THEN {ResourceEndpoints[r.op]} ELSE {}

\* the request sends its next upstream GET, or returns when none is left
Fetch(r) ==
    IF Pending(r) = {}
    THEN [r EXCEPT !.pc = "done", !.status = 200]
    ELSE LET x == CHOOSE x \in Pending(r) : \A y \in Pending(r) : Index(x) <= Index(y)
         IN [r EXCEPT !.pc = "fetch", !.requests = Append(@, x)]

\* variant without the token check
relay_token_Unchecked(r, e) ==
    IF e.status = 500
    THEN [r EXCEPT !.pc = "done", !.status = 500, !.call = None]
    ELSE Fetch([r EXCEPT !.returned = TRUE, !.access_token = e.value, !.call = None])

\* lines 815-817 (957-959, ...): refresh_token_if_needed has ended with
\* effect e (a return value, or the KeyError of line 407 passing through);
\* the token check, and the first upstream GET
relay_token(r, e) ==
    IF e.status = 500
    THEN [r EXCEPT !.pc = "done", !.status = 500, !.call = None]
    ELSE IF Unauthenticated(e.value)
    THEN [r EXCEPT !.pc = "done", !.status = 401, !.returned = TRUE,
                   !.access_token = e.value, !.call = None]
    ELSE Fetch([r EXCEPT !.returned = TRUE, !.access_token = e.value, !.call = None])

\* variant of get_whoop_data without the try/except around each fetch
relay_response_Unguarded(r, response) ==
    LET x == r.requests[Len(r.requests)] IN
    IF response.status_code = 0
    THEN [r EXCEPT !.pc = "done", !.status = 500, !.failed = @ \cup {x}]
    ELSE IF response.status_code = 200
    THEN Fetch([r EXCEPT !.result[Field(x)] = response.body])
    ELSE Fetch([r EXCEPT !.failed = @ \cup {x}])

\* the response of an upstream GET: get_whoop_data (lines 840-931) keeps a
\* 200 body, logs anything else and goes on; the single-resource handlers
\* (lines 971-982, ...) return a 200 body, raise HTTPException with the
\* upstream's status otherwise, and let an exception pass (500)
relay_response(r, response) ==
    LET x == r.requests[Len(r.requests)] IN
    IF r.op = "get_whoop_data"
    THEN IF response.status_code = 200
         THEN Fetch([r EXCEPT !.result[Field(x)] = response.body])
         ELSE Fetch([r EXCEPT !.failed = @ \cup {x}])
    ELSE IF response.status_code = 200
    THEN Fetch([r EXCEPT !.result[Field(x)] = response.body])
    ELSE [r EXCEPT !.pc = "done", !.failed = @ \cup {x},
                   !.status = IF response.status_code = 0 THEN 500
                              ELSE response.status_code]

\* a data endpoint is called: refresh_token_if_needed up to its return or
\* its refresh request
relay_call(op, user_id, data_types) ==
    /\ relay.pc = "idle"
    /\ LET e == refresh_token_if_needed_call(user_id)
           r == Relay(op, user_id, data_types)
       IN /\ token_store' = e.token_store
          /\ IF e.call = None
             THEN /\ relay' = relay_token(r, e)
                  /\ UNCHANGED provider
             ELSE \E a \in whoop_token_refresh(e.call[1].refresh_token[1]) :
                      /\ relay' = [r EXCEPT !.pc = "refresh",
                                            !.call = Some([e.call[1] EXCEPT !.response = a[1]])]
                      /\ provider' = a[2]
    /\ UNCHANGED <<refused, disconnected, WHOOP_CLIENT_ID, state_store, now, ticks, calls, ncalls, generated,
                   passed, replaced, refresh_failed, exchanged>>

get_whoop_data(user_id, data_types) == relay_call("get_whoop_data", user_id, data_types)

\* get_recovery_data, get_sleep_data, get_workout_data, get_cycle_data,
\* get_user_profile, get_body_measurement
get_resource_data(op, user_id) == relay_call(op, user_id, {ResourceEndpoints[op]})

\* the refresh response arrives: refresh_token_if_needed ends, the endpoint
\* goes on
relay_refresh_response ==
    /\ relay.pc = "refresh"
    /\ LET e == refresh_token_if_needed_response(relay.call[1]) IN
        /\ token_store' = e.token_store
        /\ relay' = relay_token(relay, e)
    /\ UNCHANGED <<refused, disconnected, WHOOP_CLIENT_ID, state_store, now, ticks, calls, ncalls, provider,
                   generated, passed, replaced, refresh_failed, exchanged>>

\* the response of the upstream GET arrives
relay_fetch_response ==
    /\ relay.pc = "fetch"
    /\ \E response \in whoop_resource(relay.requests[Len(relay.requests)]) :
           relay' = relay_response(relay, response)
    /\ UNCHANGED <<refused, disconnected, WHOOP_CLIENT_ID, token_store, state_store, now, ticks, calls, ncalls,
                   provider, generated, passed, replaced, refresh_failed, exchanged>>

\* the answer is sent; the next request can come
relay_return ==
    /\ relay.pc = "done"
    /\ relay' = NoRelay
    /\ UNCHANGED <<refused, disconnected, WHOOP_CLIENT_ID, token_store, state_store, now, ticks, calls, ncalls,
                   provider, generated, passed, replaced, refresh_failed, exchanged>>

RelayNext ==
    \/ \E u \in Users, data_types \in SUBSET ResourceSet : get_whoop_data(u, data_types)
    \/ \E op \in DOMAIN ResourceEndpoints, u \in Users : get_resource_data(op, u)
    \/ relay_refresh_response
    \/ relay_fetch_response
    \/ relay_return

RelaySpec == RelayInit /\ [][RelayNext]_vars

\* ================================================================ claims
\* The properties below are stated over every reachable state: what a piece
\* of a handler would do when it runs in that state (its effect), and what
\* the suspended handlers and the history variables show.

\* the suspended handlers of one kind
Suspended(op) == {c \in BagToSet(calls) : c.op = op}

\* the two callbacks' first pieces for a state value
CallbackCalls(state) ==
    {oauth_callback_redirect_call(state), oauth_callback_manual_call(state)}

\* C1: refresh_token_if_needed for a user whose record has expires_at
\* strictly later than now + 5 minutes returns the stored access_token,
\* sends no request to the provider (it does not suspend), and leaves the
\* token store, and so the user's record, unchanged.
C1_ValidTokenReturnedUntouched ==
    \A u \in DOMAIN token_store :
        fromisoformat(token_store[u].expires_at) > now + 5 * 60 =>
            LET e == refresh_token_if_needed_call(u) IN
            /\ e.done
            /\ e.value = Some(token_store[u].access_token)
            /\ e.call = None
            /\ e.token_store = token_store

\* a record issued after the clock advanced is valid and is returned as stored
C1_Witness ==
    \E u \in DOMAIN token_store :
        /\ now > 0
        /\ fromisoformat(token_store[u].expires_at) > now + 5 * 60
        /\ refresh_token_if_needed_call(u).value = Some(token_store[u].access_token)

\* C2: when a refresh_token_if_needed call gets a 200 refresh response, the
\* record it stores holds a refresh token: the response's if it has one,
\* otherwise the one the record held when the call read it; never none.
C2_SuccessfulRefreshKeepsRefreshToken ==
    \A c \in Suspended("refresh_token_if_needed") :
        c.response.status_code = 200 =>
            LET e == refresh_token_if_needed_response(c) IN
            /\ c.user_id \in DOMAIN e.token_store
            /\ e.token_store[c.user_id].refresh_token # None
            /\ e.token_store[c.user_id].refresh_token =
                   IF c.response.refresh_token # None
                   THEN c.response.refresh_token
                   ELSE c.token_data.refresh_token

\* a record whose access token is newer than its refresh token: a refresh
\* whose response had no refresh token stored it, keeping the prior one
C2_Witness ==
    \E u \in DOMAIN token_store :
        /\ token_store[u].refresh_token # None
        /\ token_store[u].refresh_token[1] < token_store[u].access_token

\* C3: once a refresh_token_if_needed call for user u got a non-200 refresh
\* response, and until a callback for u succeeds, u has no record and
\* refresh_token_if_needed(u) returns None.
C3_FailedRefreshStaysNotConnected ==
    \A u \in Users :
        refresh_failed[u] =>
            /\ u \notin DOMAIN token_store
            /\ refresh_token_if_needed_call(u).done
            /\ refresh_token_if_needed_call(u).value = None

\* C4: a callback (GET or POST) with a state that is not in state_store
\* answers invalid_state, sends no request to the provider, and leaves
\* token_store and state_store as they were.
C4_UnknownStateRejectedWithoutEffect ==
    \A s \in (States \cup {UnknownState}) \ DOMAIN state_store :
        \A e \in CallbackCalls(s) :
            /\ e.done
            /\ e.error = "invalid_state"
            /\ e.call = None
            /\ e.token_store = token_store
            /\ e.state_store = state_store

\* a state that was issued and consumed is rejected, with records in place
C4_Witness ==
    \E s \in DOMAIN generated :
        /\ passed[s] = 1
        /\ s \notin DOMAIN state_store
        /\ token_store # EmptyDict
        /\ \A e \in CallbackCalls(s) : e.error = "invalid_state"

\* C5: for every state value, at most one callback ever passes the state
\* check with it, and once one has, a callback with the same value is
\* rejected as invalid_state, also while the first one is still suspended.
C5_StateReadOnce ==
    \A s \in States :
        /\ passed[s] <= 1
        /\ passed[s] = 1 =>
               \A e \in CallbackCalls(s) : e.done /\ e.error = "invalid_state"

\* the callback that consumed a state is still suspended on the provider:
\* a second callback with the same state would run concurrently with it
C5_Witness ==
    \E s \in States :
        /\ passed[s] = 1
        /\ \E c \in BagToSet(calls) : c.state = s /\ c.op # "refresh_token_if_needed"

\* C6: the refresh token in a user's record is never one that a completed
\* refresh has replaced by a new one, and refresh_token_if_needed never
\* sends such a token to the provider.
C6_ReplacedRefreshTokenNeverReused ==
    \A u \in DOMAIN token_store :
        /\ token_store[u].refresh_token # None =>
               token_store[u].refresh_token[1] \notin replaced
        /\ LET e == refresh_token_if_needed_call(u) IN
           e.call # None => e.call[1].refresh_token[1] \notin replaced

\* C7 (as the code has it): get_auth_url for a user who already has a
\* pending state returns a state different from it, and both are pending
\* for that user afterwards.
C7_BothStatesRemainPending ==
    \A s1 \in DOMAIN state_store :
        \A s2 \in generate_state :
            WHOOP_CLIENT_ID # "" =>
                LET u == state_store[s1]
                    e == get_auth_url_call(u, s2)
                IN /\ e.value = Some(s2)
                   /\ s1 # s2
                   /\ {s1, s2} \subseteq DOMAIN e.state_store
                   /\ e.state_store[s1] = u
                   /\ e.state_store[s2] = u

\* two different states pending for the same user
C7_Witness ==
    \E s1, s2 \in DOMAIN state_store :
        s1 # s2 /\ state_store[s1] = state_store[s2]

\* C7 as stated: after the second get_auth_url for the same user only the
\* state issued last is pending for that user.
C7_OnlyLatestRemainsPending ==
    \A s1 \in DOMAIN state_store :
        \A s2 \in generate_state :
            WHOOP_CLIENT_ID # "" =>
                LET u == state_store[s1]
                    e == get_auth_url_call(u, s2)
                IN /\ s1 # s2
                   /\ {s \in DOMAIN e.state_store : e.state_store[s] = u} = {s2}

\* C8: a state that was issued and that no callback has passed the check
\* with is still in state_store, bound to the user it was issued for, and a
\* callback with it passes the state check and proceeds for that user;
\* whatever states were issued or consumed in between.
C8_IssuedStateStaysHonorable ==
    \A s \in DOMAIN generated :
        passed[s] = 0 =>
            /\ s \in DOMAIN state_store
            /\ state_store[s] = generated[s]
            /\ \A e \in CallbackCalls(s) :
                   /\ ~e.done
                   /\ e.call # None
                   /\ e.call[1].user_id = generated[s]

\* an earlier state is still pending after a later one, issued for the same
\* user, was consumed
C8_Witness ==
    \E s1, s2 \in DOMAIN generated :
        /\ s1 < s2
        /\ generated[s1] = generated[s2]
        /\ passed[s2] = 1
        /\ passed[s1] = 0
        /\ s1 \in DOMAIN state_store

\* C9: when the exchange response of a callback is not 200, the callback
\* answers token_exchange_failed and token_store is as it was: no record for
\* a user without one, the same record for a user with one.
C9_FailedExchangeWritesNothing ==
    \A a \in whoop_token_exchange, profile_response \in whoop_profile :
        a[1].status_code # 200 =>
            /\ \A c \in Suspended("oauth_callback_redirect") :
                   LET e == oauth_callback_redirect_response(c, a[1], profile_response)
                   IN /\ e.done
                      /\ e.error = "token_exchange_failed"
                      /\ e.token_store = token_store
            /\ \A c \in Suspended("oauth_callback_manual") :
                   LET e == oauth_callback_manual_response(c, a[1], profile_response)
                   IN /\ e.done
                      /\ e.error = "token_exchange_failed"
                      /\ e.token_store = token_store

\* a callback waits for the exchange response for a user who already has a
\* record, and a failed exchange would leave that record in place
C9_Witness ==
    \E c \in Suspended("oauth_callback_redirect") \cup Suspended("oauth_callback_manual") :
        /\ c.user_id \in DOMAIN token_store
        /\ \E a \in whoop_token_exchange, profile_response \in whoop_profile :
               /\ a[1].status_code # 200
               /\ oauth_callback_redirect_response(c, a[1], profile_response).error
                      = "token_exchange_failed"

\* C10: refresh_token_if_needed for a user whose record has expires_at at
\* or before now + 5 minutes and no refresh token removes the record and
\* returns None without a request to the provider (it does not suspend).
C10_ExpiredWithoutRefreshTokenDeleted ==
    \A u \in DOMAIN token_store :
        (/\ fromisoformat(token_store[u].expires_at) <= now + 5 * 60
         /\ token_store[u].refresh_token = None) =>
            LET e == refresh_token_if_needed_call(u) IN
            /\ e.done
            /\ e.value = None
            /\ e.call = None
            /\ e.token_store = DictDel(token_store, u)

\* an expired record that holds no refresh token, which the call removes
C10_Witness ==
    \E u \in DOMAIN token_store :
        /\ fromisoformat(token_store[u].expires_at) <= now + 5 * 60
        /\ token_store[u].refresh_token = None
        /\ u \notin DOMAIN refresh_token_if_needed_call(u).token_store

\* C11: when a refresh_token_if_needed call gets a 200 refresh response, the
\* record it stores has the response's access token, expires_at = now +
\* expires_in, and the whoop_user_id the record had when the call read it;
\* the call returns the access token it stored.
C11_RefreshKeepsRemoteUserId ==
    \A c \in Suspended("refresh_token_if_needed") :
        c.response.status_code = 200 =>
            LET e == refresh_token_if_needed_response(c)
                stored == e.token_store[c.user_id]
            IN /\ e.done
               /\ stored.access_token = c.response.access_token
               /\ fromisoformat(stored.expires_at) = now + c.response.expires_in[1]
               /\ stored.whoop_user_id = c.token_data.whoop_user_id
               /\ e.value = Some(stored.access_token)
               /\ \A u \in DOMAIN token_store \ {c.user_id} :
                      u \in DOMAIN e.token_store /\ e.token_store[u] = token_store[u]

\* a record that a refresh stored (its access token is newer than its
\* refresh token) and that still names the remote user
C11_Witness ==
    \E u \in DOMAIN token_store :
        /\ token_store[u].refresh_token # None
        /\ token_store[u].refresh_token[1] < token_store[u].access_token
        /\ token_store[u].whoop_user_id = Some("999")
        /\ fromisoformat(token_store[u].expires_at) > now + 5 * 60

\* the users for whom a callback, entered with a state issued for them, got
\* a 200 answer to its token exchange
ExchangedUsers == {generated[s] : s \in exchanged}

\* C12: a record exists only for a user for whom a callback with a state
\* issued for that user got a successful token exchange; a refresh is only
\* ever under way for such a user, so what it stores creates no record for a
\* user who never completed an exchange.
C12_RecordOnlyAfterExchange ==
    /\ exchanged \subseteq DOMAIN generated
    /\ DOMAIN token_store \subseteq ExchangedUsers
    /\ \A c \in Suspended("refresh_token_if_needed") : c.user_id \in ExchangedUsers

\* one user has a record; another user's callback got a failed exchange and
\* that user has none, whatever else was called
C12_Witness ==
    /\ token_store # EmptyDict
    /\ \E s \in DOMAIN generated :
           /\ passed[s] = 1
           /\ s \notin exchanged
           /\ \A c \in BagToSet(calls) : c.state # s
           /\ generated[s] \notin DOMAIN token_store
           /\ generated[s] \notin ExchangedUsers

\* C13: refresh_token_if_needed takes a record as valid (returns its access
\* token, no request, no change) exactly when expires_at > now + 5 minutes,
\* and as needing refresh (removes it when it has no refresh token, sends a
\* refresh request with its refresh token otherwise) exactly when
\* expires_at <= now + 5 minutes: at the threshold itself and in the past.
C13_ThresholdInclusive ==
    \A u \in DOMAIN token_store :
        LET e == refresh_token_if_needed_call(u)
            record == token_store[u]
            expires_at == fromisoformat(record.expires_at)
            valid == /\ e.done
                     /\ e.value = Some(record.access_token)
                     /\ e.call = None
                     /\ e.token_store = token_store
            needs_refresh ==
                IF record.refresh_token = None
                THEN e.done /\ e.value = None /\ u \notin DOMAIN e.token_store
                ELSE /\ ~e.done
                     /\ e.call # None
                     /\ e.call[1].refresh_token = record.refresh_token
                     /\ e.token_store = token_store
        IN /\ expires_at > now + 5 * 60 <=> valid
           /\ expires_at <= now + 5 * 60 <=> needs_refresh

\* a data request is suspended in a refresh that a record expiring exactly
\* at now + 5 minutes caused
C13_Witness ==
    /\ relay.pc = "refresh"
    /\ fromisoformat(relay.call[1].token_data.expires_at) = now + 5 * 60

\* C14: when the exchange response of a callback is 200, the record stored
\* for the user is made of the new exchange only: its access token, its
\* refresh token (none if the response has none, whatever the old record
\* held), expires_at = now + expires_in (3600 by default), and the
\* whoop_user_id of this callback's profile lookup; other records are kept.
C14_CallbackReplacesWholeRecord ==
    \A a \in whoop_token_exchange, profile_response \in whoop_profile :
        a[1].status_code = 200 =>
            \A c \in Suspended("oauth_callback_redirect") \cup Suspended("oauth_callback_manual") :
                LET e == IF c.op = "oauth_callback_redirect"
                         THEN oauth_callback_redirect_response(c, a[1], profile_response)
                         ELSE oauth_callback_manual_response(c, a[1], profile_response)
                    stored == e.token_store[c.user_id]
                IN /\ e.done /\ e.error = ""
                   /\ DOMAIN e.token_store = DOMAIN token_store \cup {c.user_id}
                   /\ stored.access_token = a[1].access_token
                   /\ stored.refresh_token = a[1].refresh_token
                   /\ fromisoformat(stored.expires_at) =
                          now + (IF a[1].expires_in = None THEN 3600 ELSE a[1].expires_in[1])
                   /\ stored.whoop_user_id =
                          (IF profile_response.status_code = 200
                           THEN Some(ToString(profile_response.user_id[1])) ELSE None)
                   /\ \A u \in DOMAIN token_store \ {c.user_id} :
                          e.token_store[u] = token_store[u]

\* two callbacks for the same user got a 200 exchange; the earlier one
\* brought a refresh token, the later one none, and the record holds none
C14_Witness ==
    \E s1, s2 \in exchanged :
        /\ s1 # s2
        /\ generated[s1] = generated[s2]
        /\ generated[s1] \in DOMAIN token_store
        /\ token_store[generated[s1]].refresh_token = None
        /\ provider.valid # {}
        /\ \A k \in provider.valid : k < token_store[generated[s1]].access_token

\* the data endpoints
RelayEndpoints == {"get_whoop_data"} \cup DOMAIN ResourceEndpoints

\* C15: every data endpoint sends upstream GETs only after
\* refresh_token_if_needed has returned, and with a token; when it returned
\* None the request has ended with status 401 and has sent no upstream GET;
\* so it is for each endpoint whenever refresh_token_if_needed returns None
\* at once (no record, or a record it removes).
C15_NoTokenNoUpstream ==
    /\ relay.requests # <<>> => relay.returned /\ relay.access_token # None
    /\ relay.pc = "refresh" => ~relay.returned /\ relay.requests = <<>>
    /\ (relay.returned /\ relay.access_token = None) =>
           relay.pc = "done" /\ relay.status = 401 /\ relay.requests = <<>>
    /\ \A op \in RelayEndpoints, u \in Users :
           LET e == refresh_token_if_needed_call(u)
               r == relay_token(Relay(op, u, {}), e)
           IN (e.done /\ e.value = None) =>
                  r.pc = "done" /\ r.status = 401 /\ r.requests = <<>>

\* a single-resource request for a user who has no record (any more) was
\* answered 401, and refresh_token_if_needed still returns None for that user
C15_Witness ==
    /\ relay.pc = "done"
    /\ relay.status = 401
    /\ relay.op \in DOMAIN ResourceEndpoints
    /\ relay.returned
    /\ provider.valid # {}
    /\ relay.user_id \notin DOMAIN token_store
    /\ refresh_token_if_needed_call(relay.user_id).value = None

\* C16: once disconnect_whoop(u) has succeeded, and until a callback for u
\* succeeds, u has no record and refresh_token_if_needed(u) returns None,
\* also when a refresh for u was suspended while disconnect_whoop ran.
C16_DisconnectedStaysNotConnected ==
    \A u \in Users :
        disconnected[u] =>
            /\ u \notin DOMAIN token_store
            /\ refresh_token_if_needed_call(u).done
            /\ refresh_token_if_needed_call(u).value = None

C18_UnconfiguredAddsNoState ==
    WHOOP_CLIENT_ID = "" =>
        /\ state_store = EmptyDict
        /\ \A u \in Users, s \in generate_state :
               LET e == get_auth_url_call(u, s) IN
               /\ e.done
               /\ e.status = 500
               /\ e.error = "WHOOP_CLIENT_ID not configured"
               /\ e.value = None
               /\ e.state_store = state_store
               /\ e.token_store = token_store

\* the unconfigured service some time after start: get_auth_url is refused
\* and nothing is pending
C18_Witness ==
    /\ WHOOP_CLIENT_ID = ""
    /\ now > 0
    /\ generate_state # {}
    /\ \A u \in Users, s \in generate_state : get_auth_url_call(u, s).status = 500
    /\ generated = EmptyDict

\* the resources of a request whose upstream GET has been answered
Answered(r) ==
    {r.requests[k] : k \in {k \in DOMAIN r.requests : k < Len(r.requests) \/ r.pc = "done"}}

\* C19: in get_whoop_data, once the token check has passed, a failed
\* upstream GET (non-200 response or exception) leaves that resource's field
\* at its default and nothing else: every field whose GET succeeded holds
\* the body, the call never ends in an error, and when it ends every
\* requested resource type has been fetched.
C19_FailuresIsolatedPerResource ==
    (relay.op = "get_whoop_data" /\ relay.returned /\ relay.access_token # None) =>
        /\ relay.status \in {0, 200}
        /\ relay.pc \in {"fetch", "done"}
        /\ relay.pc = "done" =>
               /\ relay.status = 200
               /\ {relay.requests[k] : k \in DOMAIN relay.requests} = relay.data_types
        /\ relay.failed \subseteq Answered(relay)
        /\ \A x \in ResourceSet :
               relay.result[Field(x)] =
                   IF x \in Answered(relay) \ relay.failed THEN Some(x) ELSE None

\* a get_whoop_data call ended with status 200 after one fetch failed and a
\* later one succeeded
C19_Witness ==
    /\ relay.op = "get_whoop_data"
    /\ relay.pc = "done"
    /\ relay.status = 200
    /\ \E x \in relay.failed, y \in Answered(relay) \ relay.failed :
           Index(x) < Index(y) /\ relay.result[Field(y)] = Some(y)

\* C20: a refresh_token_if_needed call sends at most one refresh request
\* (handling the response sends nothing), and a refresh token whose request
\* got a non-200 answer is not sent again by any later call.
C20_RefusedRefreshTokenNeverResent ==
    /\ \A c \in Suspended("refresh_token_if_needed") :
           LET e == refresh_token_if_needed_response(c)
           IN e.done /\ e.call = None
    /\ \A u \in Users :
           LET e == refresh_token_if_needed_call(u)
           IN e.call # None => e.call[1].refresh_token[1] \notin refused

\* C21: when two refresh_token_if_needed calls for one user overlap and the
\* provider honors one refresh (rotating the refresh token both sent) and
\* rejects the other, the rejected call's response piece leaves the record
\* that the honored refresh stored as it is: the user keeps a record with
\* the honored refresh's tokens.
C21_LoserKeepsWinnersRecord ==
    \A c \in Suspended("refresh_token_if_needed") :
        (/\ c.response.status_code # 200
         /\ c.refresh_token[1] \in replaced
         /\ c.user_id \in DOMAIN token_store
         /\ token_store[c.user_id].refresh_token # c.refresh_token
         /\ token_store[c.user_id].refresh_token # None
         /\ token_store[c.user_id].refresh_token[1] \in provider.valid) =>
            LET e == refresh_token_if_needed_response(c) IN
            /\ c.user_id \in DOMAIN e.token_store
            /\ e.token_store[c.user_id] = token_store[c.user_id]

\* C22: every refresh_token_if_needed call ends by returning an access
\* token or None: neither piece ends in an error, and the response piece of
\* a refresh that got a non-200 answer returns None also when the record
\* was removed (by disconnect_whoop or by another refresh) while the
\* request was in flight.
C22_RefreshAlwaysReturns ==
    /\ \A u \in Users :
           LET e == refresh_token_if_needed_call(u)
           IN e.error = "" /\ (e.done => e.status = 200)
    /\ \A c \in Suspended("refresh_token_if_needed") :
           LET e == refresh_token_if_needed_response(c) IN
           /\ e.done
           /\ e.status = 200
           /\ e.error = ""
           /\ c.response.status_code # 200 =>
                  e.value = None /\ c.user_id \notin DOMAIN e.token_store

\* the suspended callbacks of both kinds
SuspendedCallbacks ==
    Suspended("oauth_callback_redirect") \cup Suspended("oauth_callback_manual")

\* the second piece of a suspended callback, for its kind
CallbackResponse(c, response, profile_response) ==
    IF c.op = "oauth_callback_redirect"
    THEN oauth_callback_redirect_response(c, response, profile_response)
    ELSE oauth_callback_manual_response(c, response, profile_response)

\* C23: a callback removes the pending entry of its state before it sends
\* the exchange request, and a failed exchange does not bring it back: while
\* the callback waits the state is not in state_store, a non-200 exchange
\* answer gives token_exchange_failed with the state still absent, and once
\* a callback with state S has ended in token_exchange_failed, S is not in
\* state_store and a callback with S answers invalid_state.
C23_StateConsumedEvenOnFailure ==
    /\ \A s \in DOMAIN state_store :
           \A e \in CallbackCalls(s) :
               ~e.done /\ e.call # None /\ s \notin DOMAIN e.state_store
    /\ \A c \in SuspendedCallbacks :
           /\ c.state \notin DOMAIN state_store
           /\ \A a \in whoop_token_exchange, profile_response \in whoop_profile :
                  a[1].status_code # 200 =>
                      LET e == CallbackResponse(c, a[1], profile_response) IN
                      /\ e.error = "token_exchange_failed"
                      /\ c.state \notin DOMAIN e.state_store
    /\ \A s \in States :
           (/\ passed[s] = 1
            /\ s \notin exchanged
            /\ \A c \in SuspendedCallbacks : c.state # s) =>
               /\ s \notin DOMAIN state_store
               /\ \A e \in CallbackCalls(s) : e.done /\ e.error = "invalid_state"

\* a callback with an issued state has ended in token_exchange_failed, and
\* a retry with the same state is answered invalid_state
C23_Witness ==
    \E s \in DOMAIN generated :
        /\ passed[s] = 1
        /\ s \notin exchanged
        /\ \A c \in SuspendedCallbacks : c.state # s
        /\ \A e \in CallbackCalls(s) : e.done /\ e.error = "invalid_state"

\* C24: a callback with a pending state S acts for the user that
\* get_auth_url bound to S and removes only S from state_store; when its
\* exchange succeeds it writes that user's record, with the access token
\* and refresh token of the exchange response and the user id of the
\* profile response, and leaves every other user's record and every pending
\* entry as they are.
C24_CallbackWritesOnlyBoundUser ==
    /\ \A s \in DOMAIN state_store :
           /\ state_store[s] = generated[s]
           /\ \A e \in CallbackCalls(s) :
                  /\ e.call # None
                  /\ e.call[1].user_id = generated[s]
                  /\ e.state_store = DictDel(state_store, s)
                  /\ e.token_store = token_store
    /\ \A c \in SuspendedCallbacks :
           /\ c.user_id = generated[c.state]
           /\ \A a \in whoop_token_exchange, profile_response \in whoop_profile :
                  a[1].status_code = 200 =>
                      LET e == CallbackResponse(c, a[1], profile_response)
                          u == generated[c.state]
                      IN /\ e.error = ""
                         /\ e.state_store = state_store
                         /\ DOMAIN e.token_store = DOMAIN token_store \cup {u}
                         /\ e.token_store[u].access_token = a[1].access_token
                         /\ e.token_store[u].refresh_token = a[1].refresh_token
                         /\ profile_response.status_code = 200 =>
                                e.token_store[u].whoop_user_id =
                                    Some(ToString(profile_response.user_id[1]))
                         /\ \A v \in DOMAIN token_store \ {u} :
                                e.token_store[v] = token_store[v]

\* each of the two users completed an authorization with a state of their
\* own, and each has the record of their own exchange
C24_Witness ==
    \E s1, s2 \in exchanged :
        /\ generated[s1] # generated[s2]
        /\ {generated[s1], generated[s2]} \subseteq DOMAIN token_store
        /\ token_store[generated[s1]].access_token # token_store[generated[s2]].access_token
        /\ token_store[generated[s1]].refresh_token # None
        /\ token_store[generated[s2]].whoop_user_id = Some("999")

\* C25: the GET callback and the POST callback do the same to the two
\* stores and end in the same outcome (success, invalid_state or
\* token_exchange_failed): in every state, for every state value, their
\* first pieces leave the same stores, end or suspend alike and suspend for
\* the same user; and for every suspended callback and every pair of
\* provider answers their second pieces leave the same stores with the same
\* outcome.
C25_CallbacksEquivalent ==
    /\ \A s \in States \cup {UnknownState} :
           LET g == oauth_callback_redirect_call(s)
               p == oauth_callback_manual_call(s)
           IN /\ g.token_store = p.token_store
              /\ g.state_store = p.state_store
              /\ g.done = p.done
              /\ g.error = p.error
              /\ (g.call = None) = (p.call = None)
              /\ g.call # None =>
                     /\ g.call[1].user_id = p.call[1].user_id
                     /\ g.call[1].state = p.call[1].state
    /\ \A c \in SuspendedCallbacks :
           \A a \in whoop_token_exchange, profile_response \in whoop_profile :
               LET g == oauth_callback_redirect_response(c, a[1], profile_response)
                   p == oauth_callback_manual_response(c, a[1], profile_response)
               IN /\ g.token_store = p.token_store
                  /\ g.state_store = p.state_store
                  /\ g.done /\ p.done
                  /\ g.error = p.error
                  /\ g.error \in {"", "token_exchange_failed"}

\* a callback waits for the provider for a user who already has a record;
\* both kinds of callback would replace the record by the same new one
C25_Witness ==
    \E c \in SuspendedCallbacks :
        /\ c.user_id \in DOMAIN token_store
        /\ \E a \in whoop_token_exchange, profile_response \in whoop_profile :
               /\ a[1].status_code = 200
               /\ oauth_callback_redirect_response(c, a[1], profile_response).token_store
                      # token_store
               /\ oauth_callback_redirect_response(c, a[1], profile_response).token_store
                      = oauth_callback_manual_response(c, a[1], profile_response).token_store

\* C26: whenever refresh_token_if_needed(u) hands an access token T to its
\* caller, u has a record at that moment and its access_token is T: when it
\* returns at once (the stored token is still valid), and when it returns
\* after a refresh, whatever ran for u while it was suspended.
C26_ReturnedTokenIsStored ==
    /\ \A u \in Users :
           LET e == refresh_token_if_needed_call(u) IN
           (e.done /\ e.value # None) =>
               /\ u \in DOMAIN e.token_store
               /\ e.token_store[u].access_token = e.value[1]
    /\ \A c \in Suspended("refresh_token_if_needed") :
           LET e == refresh_token_if_needed_response(c) IN
           e.value # None =>
               /\ c.user_id \in DOMAIN e.token_store
               /\ e.token_store[c.user_id].access_token = e.value[1]
    /\ \A c \in Suspended("refresh_token_if_needed.__aexit__") :
           c.value # None =>
               /\ c.user_id \in DOMAIN token_store
               /\ token_store[c.user_id].access_token = c.value[1]
====
